---- MODULE Spec2Model ----
(***************************************************************************)
(* Verification model of the backtesting core of the Algo-Trading-System:  *)
(*   BacktestingEngine   (src/core/backtesting_engine.py)                  *)
(*   DatabaseManager     (src/old_code/backtesting/database_manager.py)    *)
(*   PerformanceAnalyzer (src/core/performance_analyzer.py)                *)
(*                                                                         *)
(* Numbers.  Money, prices and share counts are float64 in the program.    *)
(* Here they are integers on a grid of one unit.  A float64 quotient is    *)
(* rounded to the nearest representable number, so (a / b) * b need not    *)
(* be a; FDiv keeps that: it rounds the quotient to the nearest grid       *)
(* point.  Products and sums of grid numbers are exact.                    *)
(* Ratios reported by the program are kept as normalised fractions         *)
(* <<num, den>>; results that go through a real power or a square root     *)
(* are kept as the exact arguments they are computed from.                 *)
(* The drawdown percentages are summed and averaged by the program, and    *)
(* a float64 sum is rounded to 53 significant bits; they are computed here *)
(* in the same order of operations, each result rounded to the nearest     *)
(* number of MantissaBits significant bits, ties to even (Fl).             *)
(*                                                                         *)
(* Dates.  A row's timestamp is its day number; '%Y-%m-%d' strings of      *)
(* daily timestamps order exactly as the day numbers do.                   *)
(***************************************************************************)
EXTENDS Integers, Sequences, FiniteSets, TLC

\* ------------------------------------------------------------- bounds
\* rows iterated by the main loop, summed over all runs of the engine
MaxRows == 4
\* calls of run_backtest on the engine
MaxRuns == 2
\* rows of the performance_metrics table, one per analysis of a run
MaxAnalyze == 2

\* snapshots of a portfolio_history table an analyzer is opened on
MaxSnapshots == 4

\* rows of the series of each of two commands that run at the same time
MaxConcurrentRows == 2

\* ------------------------------------------------------------- inputs
InitialCapital == 100
NaN == -1
None == -2
Prices == {2, 3}
Strategies == {"none", "bollinger_bands", "ma_crossover"}
\* risk_free_rate * 100 of the default risk_free_rate = 0.02
RiskFreePcts == {2}
\* the prices of the periods of a stored history
StorePrices == {3, 5, 7}

\* The rows a series can hold.  A strategy's series comes from its own
\* generate_signals: 'signal' is 0.0 or 1.0 there, the Bollinger series has
\* a middle_band column (NaN while the window warms up) and the crossover
\* series has short_ma and long_ma instead (ma_down: short_ma < long_ma).
\* An engine built without a strategy takes any series, also the raw
\* signals with -1.0 and series without a middle_band column (None).
Rows(strat) ==
    CASE strat = "bollinger_bands" ->
            [price : Prices \cup {NaN}, signal : {0, 1},
             middle_band : {NaN, 2, 3}, ma_down : {FALSE}]
      [] strat = "ma_crossover" ->
            [price : Prices \cup {NaN}, signal : {0, 1},
             middle_band : {None}, ma_down : BOOLEAN]
      [] OTHER ->
            [price : Prices \cup {NaN}, signal : {0, 1, -1},
             middle_band : {None, NaN, 2, 3}, ma_down : {FALSE}]

\* ------------------------------------------------------------ numbers
RECURSIVE GCD(_, _)
GCD(a, b) == IF b = 0 THEN a ELSE GCD(b, a % b)

Abs(x) == IF x < 0 THEN -x ELSE x

\* float64 division, rounded to the nearest grid point (a >= 0, b > 0)
FDiv(a, b) == (2 * a + b) \div (2 * b)

\* the fraction n / d (d # 0) in lowest terms, with a positive denominator
Rat(n, d) ==
    LET g == GCD(Abs(n), Abs(d))
        s == IF d < 0 THEN -1 ELSE 1
    IN  <<(s * n) \div g, (s * d) \div g>>

Zero == <<0, 1>>
Inf == <<1, 0>>
RatAbs(q) == <<Abs(q[1]), q[2]>>
RatLess(p, q) == p[1] * q[2] < q[1] * p[2]
RatAdd(p, q) ==
    LET g == GCD(p[2], q[2])
    IN  Rat(p[1] * (q[2] \div g) + q[1] * (p[2] \div g), (p[2] \div g) * q[2])

\* sum and the extremes of a sequence
RECURSIVE Sum(_)
Sum(s) == IF s = <<>> THEN 0 ELSE s[1] + Sum(Tail(s))

\* significant bits of a floating-point result (53 in float64)
MantissaBits == 9
RECURSIVE Pow2(_)
Pow2(k) == IF k = 0 THEN 1 ELSE 2 * Pow2(k - 1)
\* x / y (x, y > 0) times the power of two that brings it into
\* [2^(MantissaBits-1), 2^MantissaBits), as <<x * 2^i, y * 2^j>>
RECURSIVE Normalise(_, _)
Normalise(x, y) ==
    IF x < Pow2(MantissaBits - 1) * y THEN Normalise(2 * x, y)
    ELSE IF x >= Pow2(MantissaBits) * y THEN Normalise(x, 2 * y)
    ELSE <<x, y>>
\* the floating-point number nearest to n / d (d > 0), ties to even
Fl(n, d) ==
    IF n = 0 THEN Zero
    ELSE LET xy == Normalise(Abs(n), d)
             m0 == xy[1] \div xy[2]
             r == xy[1] % xy[2]
             m == IF 2 * r > xy[2] \/ (2 * r = xy[2] /\ m0 % 2 = 1)
                  THEN m0 + 1 ELSE m0
             sgn == IF n < 0 THEN -1 ELSE 1
         IN  Rat(sgn * m * (xy[2] \div d), xy[1] \div Abs(n))
\* ndarray.sum(): the elements added one after the other, each partial
\* sum rounded
RECURSIVE FlSum(_)
FlSum(s) ==
    IF s = <<>> THEN Zero
    ELSE LET exact == RatAdd(FlSum(SubSeq(s, 1, Len(s) - 1)), s[Len(s)])
         IN  Fl(exact[1], exact[2])
Max(s) == CHOOSE x \in {s[k] : k \in 1..Len(s)} :
              \A k \in 1..Len(s) : s[k] <= x
Min(s) == CHOOSE x \in {s[k] : k \in 1..Len(s)} :
              \A k \in 1..Len(s) : x <= s[k]
RatMin(s) == CHOOSE x \in {s[k] : k \in 1..Len(s)} :
                 \A k \in 1..Len(s) : ~RatLess(s[k], x)

VARIABLES
    \* BacktestingEngine
    strategy, cash, position_shares, last_portfolio_value,
    current_date, current_price, trades_executed, winning_trades,
    losing_trades, entry_price,
    \* DatabaseManager tables, rows in insertion (rowid) order
    trades, portfolio_history, performance_metrics,
    \* PerformanceAnalyzer.metrics
    metrics,
    \* control: where the engine is, the next row of the series, what the
    \* last run_backtest and the last analyze_performance since returned
    \* (NoSummary, EmptyDict: nothing yet), what the last call raised
    pc, pos, summary, returned, raised,
    \* history: rows and runs consumed, rows of this run with a price, what
    \* the last step did, whether a row of this run with a price carried
    \* signal 1, and the engine and store a newly built engine on an empty
    \* database would have after the rows of this run, and the INSERTs of
    \* this run in the order they were issued (table and date column)
    rows, runs, processed, step, signalled, single, emitted,
    \* a second `backtest` command running at the same time: where it is,
    \* its strategy, its engine, and its database when that is another file
    other

engineVars == <<strategy, cash, position_shares, last_portfolio_value,
                current_date, current_price, trades_executed,
                winning_trades, losing_trades, entry_price>>
storeVars == <<trades, portfolio_history, performance_metrics>>
ctlVars == <<pc, pos, summary, returned, raised>>
histVars == <<rows, runs, processed, step, signalled, single, emitted>>
vars == <<engineVars, storeVars, metrics, ctlVars, histVars, other>>

NoSummary == [initial_capital |-> 0, final_portfolio_value |-> 0,
              total_return |-> Zero, total_trades |-> 0,
              winning_trades |-> 0, losing_trades |-> 0,
              win_rate |-> Zero, profit_loss |-> 0]
NoStep == [kind |-> "none", holding |-> FALSE, sells |-> 0, buys |-> 0,
           snaps |-> 0, row |-> [price |-> NaN, signal |-> 0,
                                 middle_band |-> None, ma_down |-> FALSE]]

\* the fields of a newly built engine and the tables of an empty database
NewEng == [cash |-> InitialCapital, position_shares |-> 0,
           last_portfolio_value |-> InitialCapital,
           current_date |-> 0, current_price |-> 0,
           trades_executed |-> 0, winning_trades |-> 0, losing_trades |-> 0,
           entry_price |-> 0, trades |-> <<>>, portfolio_history |-> <<>>,
           emitted |-> <<>>]

\* no second command was started
NoOther == [pc |-> "none", pos |-> 0, strategy |-> "none", eng |-> NewEng,
            performance_metrics |-> <<>>]

\* ------------------------------------------------------ DatabaseManager
\* INSERT INTO trades
log_trade(tbl, trade_date, trade_type, price, shares, cash_change, portfolio_value) ==
    Append(tbl, [trade_date |-> trade_date, trade_type |-> trade_type,
                 price |-> price, shares |-> shares,
                 cash_change |-> cash_change,
                 portfolio_value |-> portfolio_value])

\* INSERT OR REPLACE INTO portfolio_history, date is the primary key
log_portfolio_status(tbl, rec) ==
    Append(SelectSeq(tbl, LAMBDA r : r.date # rec.date), rec)

\* rows of tbl in ascending order of column key, rows with equal keys in
\* rowid order
InsertByKey(s, r, key) ==
    LET n == Cardinality({j \in 1..Len(s) : s[j][key] <= r[key]})
    IN  SubSeq(s, 1, n) \o <<r>> \o SubSeq(s, n + 1, Len(s))
OrderBy(tbl, key) ==
    LET ins[k \in 0..Len(tbl)] ==
            IF k = 0 THEN <<>> ELSE InsertByKey(ins[k - 1], tbl[k], key)
    IN  ins[Len(tbl)]

\* SELECT * FROM portfolio_history ORDER BY date
get_portfolio_history(tbl) == OrderBy(tbl, "date")
\* SELECT * FROM trades ORDER BY trade_date
get_trades(tbl) == OrderBy(tbl, "trade_date")

\* INSERT INTO performance_metrics (the id and the wall-clock backtest_date
\* of the row are left out)
MetricsRow(m) ==
    [initial_capital |-> m.initial_capital,
     final_portfolio_value |-> m.final_portfolio_value,
     total_return |-> m.total_return,
     total_trades |-> m.total_trades,
     winning_trades |-> m.winning_trades,
     losing_trades |-> m.losing_trades,
     win_rate |-> m.win_rate,
     max_drawdown |-> m.max_drawdown,
     sharpe_ratio |-> m.sharpe_ratio]
log_performance_metrics_Replace(tbl, m) == <<MetricsRow(m)>>
log_performance_metrics(tbl, m) == Append(tbl, MetricsRow(m))

\* ---------------------------------------------------- BacktestingEngine
\* date.strftime('%Y-%m-%d') of a daily timestamp, as its day number
strftime_Descending(date) == 100 - date
strftime(date) == date

\* the engine's fields and the two tables it writes, as one value
Eng == [cash |-> cash, position_shares |-> position_shares,
        last_portfolio_value |-> last_portfolio_value,
        current_date |-> current_date, current_price |-> current_price,
        trades_executed |-> trades_executed,
        winning_trades |-> winning_trades, losing_trades |-> losing_trades,
        entry_price |-> entry_price,
        trades |-> trades, portfolio_history |-> portfolio_history,
        emitted |-> emitted]

execute_buy_KeepCash(e) ==
    LET shares_to_buy == FDiv(e.cash, e.current_price)
        cash_spent == shares_to_buy * e.current_price
    IN  [e EXCEPT !.position_shares = shares_to_buy,
                  !.entry_price = e.current_price,
                  !.trades = log_trade(@, e.current_date, "BUY",
                                 e.current_price, shares_to_buy, -cash_spent,
                                 e.cash + shares_to_buy * e.current_price),
                  !.trades_executed = @ + 1,
                  !.emitted = Append(@, [table |-> "trades",
                                         date |-> e.current_date])]
execute_buy(e) ==
    IF e.cash <= 0 THEN e
    ELSE
    LET shares_to_buy == FDiv(e.cash, e.current_price)
        cash_spent == shares_to_buy * e.current_price
        portfolio_value == 0 + (shares_to_buy * e.current_price)
    IN  [e EXCEPT !.position_shares = shares_to_buy,
                  !.cash = 0,
                  !.entry_price = e.current_price,
                  !.trades = log_trade(@, e.current_date, "BUY",
                                 e.current_price, shares_to_buy, -cash_spent,
                                 portfolio_value),
                  !.trades_executed = @ + 1,
                  !.emitted = Append(@, [table |-> "trades",
                                         date |-> e.current_date])]

execute_sell_KeepShares(e) ==
    LET cash_received == e.position_shares * e.current_price
    IN  [e EXCEPT !.cash = @ + cash_received,
                  !.trades = log_trade(@, e.current_date, "SELL",
                                 e.current_price, e.position_shares,
                                 cash_received, e.cash + cash_received),
                  !.trades_executed = @ + 1,
                  !.emitted = Append(@, [table |-> "trades",
                                         date |-> e.current_date])]
execute_sell_BreakEvenWins(e) ==
    IF e.position_shares <= 0 THEN e
    ELSE
    LET cash_received == e.position_shares * e.current_price
        shares_sold == e.position_shares
        won == e.current_price >= e.entry_price
        portfolio_value == (e.cash + cash_received) + (0 * e.current_price)
    IN  [e EXCEPT !.winning_trades = IF won THEN @ + 1 ELSE @,
                  !.losing_trades = IF won THEN @ ELSE @ + 1,
                  !.cash = @ + cash_received,
                  !.position_shares = 0,
                  !.trades = log_trade(@, e.current_date, "SELL",
                                 e.current_price, shares_sold, cash_received,
                                 portfolio_value),
                  !.trades_executed = @ + 1,
                  !.emitted = Append(@, [table |-> "trades",
                                         date |-> e.current_date])]
execute_sell(e) ==
    IF e.position_shares <= 0 THEN e
    ELSE
    LET cash_received == e.position_shares * e.current_price
        shares_sold == e.position_shares
        won == e.current_price > e.entry_price
        portfolio_value == (e.cash + cash_received) + (0 * e.current_price)
    IN  [e EXCEPT !.winning_trades = IF won THEN @ + 1 ELSE @,
                  !.losing_trades = IF won THEN @ ELSE @ + 1,
                  !.cash = @ + cash_received,
                  !.position_shares = 0,
                  !.trades = log_trade(@, e.current_date, "SELL",
                                 e.current_price, shares_sold, cash_received,
                                 portfolio_value),
                  !.trades_executed = @ + 1,
                  !.emitted = Append(@, [table |-> "trades",
                                         date |-> e.current_date])]

ShouldExit_Strict(strat, price, row) ==
    CASE strat = "bollinger_bands" ->
            LET mb == IF row.middle_band = None THEN 0 ELSE row.middle_band
            IN  mb # NaN /\ price >= mb
      [] strat = "ma_crossover" -> row.ma_down
      [] OTHER ->
            /\ row.middle_band # None
            /\ row.middle_band # NaN
            /\ price > row.middle_band
\* the exit decision of _check_exit_conditions for one row
ShouldExit(strat, price, row) ==
    CASE strat = "bollinger_bands" ->
            \* row_data.get('middle_band', 0); a NaN compares False
            LET mb == IF row.middle_band = None THEN 0 ELSE row.middle_band
            IN  mb # NaN /\ price >= mb
      [] strat = "ma_crossover" -> row.ma_down
      [] OTHER ->
            /\ row.middle_band # None
            /\ row.middle_band # NaN
            /\ price >= row.middle_band

check_exit_conditions(e, row, strat) ==
    IF ShouldExit(strat, e.current_price, row) THEN execute_sell(e) ELSE e

update_portfolio_status_CashOnly(e) ==
    [e EXCEPT !.portfolio_history = log_portfolio_status(@,
                  [date |-> e.current_date, cash |-> e.cash,
                   holdings_value |-> e.position_shares * e.current_price,
                   total_value |-> e.cash,
                   shares_held |-> e.position_shares,
                   price |-> e.current_price]),
              !.last_portfolio_value = e.cash,
                  !.emitted = Append(@, [table |-> "portfolio_status",
                                         date |-> e.current_date])]
update_portfolio_status_ResetEntry(e) ==
    LET current_holdings_value == e.position_shares * e.current_price
        total_portfolio_value == e.cash + current_holdings_value
    IN  [e EXCEPT !.portfolio_history = log_portfolio_status(@,
                      [date |-> e.current_date, cash |-> e.cash,
                       holdings_value |-> current_holdings_value,
                       total_value |-> total_portfolio_value,
                       shares_held |-> e.position_shares,
                       price |-> e.current_price]),
                  !.last_portfolio_value = total_portfolio_value,
                  !.entry_price = e.current_price,
                  !.emitted = Append(@, [table |-> "portfolio_status",
                                         date |-> e.current_date])]
update_portfolio_status(e) ==
    LET current_holdings_value == e.position_shares * e.current_price
        total_portfolio_value == e.cash + current_holdings_value
    IN  [e EXCEPT !.portfolio_history = log_portfolio_status(@,
                      [date |-> e.current_date, cash |-> e.cash,
                       holdings_value |-> current_holdings_value,
                       total_value |-> total_portfolio_value,
                       shares_held |-> e.position_shares,
                       price |-> e.current_price]),
                  !.last_portfolio_value = total_portfolio_value,
                  !.emitted = Append(@, [table |-> "portfolio_status",
                                         date |-> e.current_date])]

\* one iteration of the main loop of run_backtest, after the row is read
LoopBody_IfIf(e, row, strat) ==
    IF row.price = NaN THEN e
    ELSE LET x == IF e.position_shares > 0
                  THEN check_exit_conditions(e, row, strat) ELSE e
         IN  update_portfolio_status(
                 IF x.position_shares <= 0 /\ row.signal = 1
                 THEN execute_buy(x) ELSE x)
LoopBody_SnapshotNaN(e, row, strat) ==
    update_portfolio_status(
        IF row.price = NaN THEN e
        ELSE IF e.position_shares > 0
        THEN check_exit_conditions(e, row, strat)
        ELSE IF row.signal = 1 THEN execute_buy(e)
        ELSE e)
LoopBody_SnapshotFirst(e, row, strat) ==
    IF row.price = NaN THEN e
    ELSE LET x == update_portfolio_status(e)
         IN  IF x.position_shares > 0
             THEN check_exit_conditions(x, row, strat)
             ELSE IF row.signal = 1 THEN execute_buy(x)
             ELSE x
LoopBody_AnySignal(e, row, strat) ==
    IF row.price = NaN THEN e
    ELSE update_portfolio_status(
             IF e.position_shares > 0
             THEN check_exit_conditions(e, row, strat)
             ELSE IF row.signal # 0 THEN execute_buy(e)
             ELSE e)
LoopBody(e, row, strat) ==
    IF row.price = NaN THEN e
    ELSE update_portfolio_status(
             IF e.position_shares > 0
             THEN check_exit_conditions(e, row, strat)
             ELSE IF row.signal = 1 THEN execute_buy(e)
             ELSE e)

generate_summary(e) ==
    LET final_portfolio_value == e.last_portfolio_value
    IN  [initial_capital |-> InitialCapital,
         final_portfolio_value |-> final_portfolio_value,
         total_return |-> Rat((final_portfolio_value - InitialCapital) * 100,
                              InitialCapital),
         total_trades |-> e.trades_executed,
         winning_trades |-> e.winning_trades,
         losing_trades |-> e.losing_trades,
         win_rate |-> IF e.trades_executed > 0
                      THEN Rat(e.winning_trades * 100, e.trades_executed)
                      ELSE Zero,
         profit_loss |-> final_portfolio_value - InitialCapital]

\* -------------------------------------------------- PerformanceAnalyzer
\* A metrics dict is a record; the analyzer's initial {} is the empty one.
EmptyDict == <<>>

\* ((final / initial) ** (252 / days) - 1) * 100 as <<n, d, days>>, n / d the
\* ratio in lowest terms.  A ratio of 1 gives exactly 0, kept as AnnZero.
AnnZero == <<1, 1, 1>>
AnnTerm(initial_value, final_value, days) ==
    IF final_value = initial_value THEN AnnZero
    ELSE LET q == Rat(final_value, initial_value) IN <<q[1], q[2], days>>

\* ann > risk_free_rate * 100 for a rate >= 0.  With x = n / d - 1 > 0 and
\* days <= 252, (1 + x) ** (252 / days) - 1 >= 252 * x / days (Bernoulli),
\* which decides every comparison the model's values present (AnnDecided).
AnnExceeds(ann, risk_free_pct) ==
    /\ ann[1] > ann[2]
    /\ 252 * 100 * (ann[1] - ann[2]) > risk_free_pct * ann[3] * ann[2]
AnnDecided(ann, risk_free_pct) ==
    ann[1] > ann[2] => AnnExceeds(ann, risk_free_pct)

\* std() * sqrt(252) * 100 of a sample, as the sample itself; <<>> when it
\* is not a positive number: 0 for equal observations, NaN for fewer than 2
DevTerm(sample) ==
    IF \E j, k \in 1..Len(sample) : sample[j] # sample[k]
    THEN sample ELSE <<>>

\* (ann - risk_free_rate * 100) / dev, as its arguments; 0 / dev is 0
RatioZero == [inf |-> FALSE, ann |-> AnnZero, rf |-> 0, dev |-> <<>>]
RatioInf == [inf |-> TRUE, ann |-> AnnZero, rf |-> 0, dev |-> <<>>]
RatioTerm(ann, risk_free_pct, dev) ==
    IF ann = AnnZero /\ risk_free_pct = 0 THEN RatioZero
    ELSE [inf |-> FALSE, ann |-> ann, rf |-> risk_free_pct, dev |-> dev]

TotalValues(portfolio_df) ==
    [k \in 1..Len(portfolio_df) |-> portfolio_df[k].total_value]
\* portfolio_df['total_value'].pct_change().dropna()
DailyReturns(portfolio_df) ==
    [k \in 1..(Len(portfolio_df) - 1) |->
        Rat(portfolio_df[k + 1].total_value - portfolio_df[k].total_value,
            portfolio_df[k].total_value)]

\* avg_daily_return and daily_volatility are the mean and the std of
\* daily_returns, kept as that sample
calculate_basic_metrics(portfolio_df) ==
    LET initial_value == portfolio_df[1].total_value
        final_value == portfolio_df[Len(portfolio_df)].total_value
        days == Len(portfolio_df)
    IN  [initial_capital |-> initial_value,
         final_portfolio_value |-> final_value,
         total_return |-> Rat((final_value - initial_value) * 100,
                              initial_value),
         annualized_return |-> IF days > 1
                               THEN AnnTerm(initial_value, final_value, days)
                               ELSE AnnZero,
         total_days |-> days,
         daily_returns |-> DailyReturns(portfolio_df)]

\* self.metrics.get('annualized_return', 0), self.metrics being the dict the
\* previous analyze_performance left (analyze_performance assigns
\* self.metrics only after all four metric sets are computed)
MetricsAnnualizedReturn(self_metrics, basic_metrics) ==
    IF "annualized_return" \in DOMAIN self_metrics
    THEN self_metrics.annualized_return ELSE AnnZero

calculate_risk_metrics(portfolio_df, risk_free_pct, ann) ==
    LET daily_returns == DailyReturns(portfolio_df)
        annualized_volatility == DevTerm(daily_returns)
        negative_returns == SelectSeq(daily_returns, LAMBDA r : r[1] < 0)
        downside_deviation == DevTerm(negative_returns)
    IN  IF Len(daily_returns) < 2
        THEN [sharpe_ratio |-> RatioZero, annualized_volatility |-> <<>>]
        ELSE [annualized_volatility |-> annualized_volatility,
              sharpe_ratio |->
                  IF annualized_volatility # <<>>
                  THEN RatioTerm(ann, risk_free_pct, annualized_volatility)
                  ELSE RatioZero,
              sortino_ratio |->
                  IF Len(negative_returns) > 0
                  THEN IF downside_deviation # <<>>
                       THEN RatioTerm(ann, risk_free_pct, downside_deviation)
                       ELSE RatioZero
                  ELSE IF AnnExceeds(ann, risk_free_pct)
                       THEN RatioInf ELSE RatioZero]

\* the BUY row a SELL row is paired with: prev_buys.iloc[-1]
PrevBuys(buy_trades, sell_trade) ==
    SelectSeq(buy_trades, LAMBDA b : b.trade_date < sell_trade.trade_date)
PairedBuy_Oldest(buy_trades, sell_trade) ==
    PrevBuys(buy_trades, sell_trade)[1]
PairedBuy(buy_trades, sell_trade) ==
    LET prev_buys == PrevBuys(buy_trades, sell_trade)
    IN  prev_buys[Len(prev_buys)]

BuyTrades(trades_df) == SelectSeq(trades_df, LAMBDA t : t.trade_type = "BUY")
SellTrades(trades_df) ==
    SelectSeq(trades_df, LAMBDA t : t.trade_type = "SELL")

\* the pairs the loop over sell_trades finds, each with its P&L
TradePairs(trades_df) ==
    LET buy_trades == BuyTrades(trades_df)
        paired == SelectSeq(SellTrades(trades_df),
                      LAMBDA t : PrevBuys(buy_trades, t) # <<>>)
    IN  [k \in 1..Len(paired) |->
            LET buy_trade == PairedBuy(buy_trades, paired[k])
            IN  [buy |-> buy_trade, sell |-> paired[k],
                 pnl |-> (paired[k].price - buy_trade.price)
                             * paired[k].shares]]

NoTradeMetrics(total) ==
    [total_trades |-> total, winning_trades |-> 0, losing_trades |-> 0,
     win_rate |-> Zero, avg_win |-> Zero, avg_loss |-> Zero,
     profit_factor |-> Zero, largest_win |-> 0, largest_loss |-> 0]

calculate_trade_metrics(trades_df) ==
    LET pairs == TradePairs(trades_df)
        trade_pnl == [k \in 1..Len(pairs) |-> pairs[k].pnl]
        winning == SelectSeq(trade_pnl, LAMBDA x : x > 0)
        losing == SelectSeq(trade_pnl, LAMBDA x : x < 0)
    IN  IF trades_df = <<>> THEN NoTradeMetrics(0)
        ELSE IF trade_pnl = <<>>
        THEN NoTradeMetrics(Len(BuyTrades(trades_df)))
        ELSE [total_trades |-> Len(trade_pnl),
              winning_trades |-> Len(winning),
              losing_trades |-> Len(losing),
              win_rate |-> Rat(Len(winning) * 100, Len(trade_pnl)),
              avg_win |-> IF Len(winning) > 0
                          THEN Rat(Sum(winning), Len(winning)) ELSE Zero,
              avg_loss |-> IF Len(losing) > 0
                           THEN RatAbs(Rat(Sum(losing), Len(losing)))
                           ELSE Zero,
              profit_factor |-> IF Len(losing) > 0 /\ Sum(losing) # 0
                                THEN RatAbs(Rat(Sum(winning), Sum(losing)))
                                ELSE Inf,
              largest_win |-> IF Len(winning) > 0 THEN Max(winning) ELSE 0,
              largest_loss |-> IF Len(losing) > 0
                               THEN Abs(Min(losing)) ELSE 0]

\* (portfolio_values - peak) / peak * 100, peak the running maximum
Drawdown_FromFirst(portfolio_df) ==
    LET values == TotalValues(portfolio_df)
    IN  [k \in 1..Len(values) |->
            LET ratio == Fl(values[k] - values[1], values[1])
            IN  Fl(ratio[1] * 100, ratio[2])]
Drawdown(portfolio_df) ==
    LET values == TotalValues(portfolio_df)
    IN  [k \in 1..Len(values) |->
            LET peak == Max(SubSeq(values, 1, k))
                ratio == Fl(values[k] - peak, peak)
            IN  Fl(ratio[1] * 100, ratio[2])]

calculate_drawdown_metrics(portfolio_df) ==
    LET drawdown == Drawdown(portfolio_df)
        negative_drawdowns == SelectSeq(drawdown, LAMBDA q : q[1] < 0)
        total == FlSum(negative_drawdowns)
    IN  [max_drawdown |-> RatAbs(RatMin(drawdown)),
         current_drawdown |-> RatAbs(drawdown[Len(drawdown)]),
         avg_drawdown |->
             IF Len(negative_drawdowns) > 0
             THEN RatAbs(Fl(total[1],
                            total[2] * Len(negative_drawdowns)))
             ELSE Zero]

\* the dict analyze_performance builds from a non-empty portfolio_df
analyze_performance(portfolio_df, trades_df, risk_free_pct, self_metrics) ==
    LET basic_metrics == calculate_basic_metrics(portfolio_df)
        risk_metrics ==
            calculate_risk_metrics(portfolio_df, risk_free_pct,
                MetricsAnnualizedReturn(self_metrics, basic_metrics))
        trade_metrics == calculate_trade_metrics(trades_df)
        drawdown_metrics == calculate_drawdown_metrics(portfolio_df)
    IN  drawdown_metrics @@ trade_metrics @@ risk_metrics @@ basic_metrics

CountType(tbl, t) == Len(SelectSeq(tbl, LAMBDA r : r.trade_type = t))

Init ==
    /\ strategy \in Strategies
    /\ cash = InitialCapital
    /\ position_shares = 0
    /\ last_portfolio_value = InitialCapital
    /\ current_date = 0
    /\ current_price = 0
    /\ trades_executed = 0
    /\ winning_trades = 0
    /\ losing_trades = 0
    /\ entry_price = 0
    /\ trades = <<>>
    /\ portfolio_history = <<>>
    /\ performance_metrics = <<>>
    /\ pc = "idle"
    /\ pos = 0
    /\ metrics = EmptyDict
    /\ summary = NoSummary
    /\ returned = EmptyDict
    /\ raised = "none"
    /\ rows = 0
    /\ runs = 0
    /\ processed = 0
    /\ step = NoStep
    /\ signalled = FALSE
    /\ single = NewEng
    /\ emitted = <<>>
    /\ other = NoOther

StartRun_KeepTrades(columns_ok) ==
    /\ pc = "idle"
    /\ runs < MaxRuns
    /\ trades' = trades
    /\ portfolio_history' = <<>>
    /\ performance_metrics' = <<>>
    /\ cash' = InitialCapital
    /\ position_shares' = 0
    /\ trades_executed' = 0
    /\ winning_trades' = 0
    /\ losing_trades' = 0
    /\ IF columns_ok
       THEN pc' = "loop" /\ raised' = "none"
       ELSE pc' = "idle" /\ raised' = "ValueError"
    /\ pos' = 1
    /\ runs' = runs + 1
    /\ processed' = 0
    /\ summary' = NoSummary
    /\ returned' = EmptyDict
    /\ step' = [NoStep EXCEPT
                   !.kind = IF columns_ok THEN "start" ELSE "invalid"]
    /\ signalled' = FALSE
    /\ single' = NewEng
    /\ emitted' = <<>>
    /\ UNCHANGED <<strategy, last_portfolio_value, current_date,
                   current_price, entry_price, metrics, rows, other>>
\* run_backtest up to the main loop: clear_data, the reset of the portfolio
\* state, then the check of the required columns
StartRun(columns_ok) ==
    /\ pc = "idle"
    /\ runs < MaxRuns
    /\ trades' = <<>>
    /\ portfolio_history' = <<>>
    /\ performance_metrics' = <<>>
    /\ cash' = InitialCapital
    /\ position_shares' = 0
    /\ trades_executed' = 0
    /\ winning_trades' = 0
    /\ losing_trades' = 0
    /\ IF columns_ok
       THEN pc' = "loop" /\ raised' = "none"
       ELSE pc' = "idle" /\ raised' = "ValueError"
    /\ pos' = 1
    /\ runs' = runs + 1
    /\ processed' = 0
    /\ summary' = NoSummary
    /\ returned' = EmptyDict
    /\ step' = [NoStep EXCEPT
                   !.kind = IF columns_ok THEN "start" ELSE "invalid"]
    /\ signalled' = FALSE
    /\ single' = NewEng
    /\ emitted' = <<>>
    /\ UNCHANGED <<strategy, last_portfolio_value, current_date,
                   current_price, entry_price, metrics, rows, other>>

\* one row of signals_df.iloc[1:]
Period(row) ==
    /\ pc = "loop"
    /\ rows < MaxRows
    /\ LET e0 == [Eng EXCEPT !.current_date = strftime(pos),
                             !.current_price = row.price]
           e == LoopBody(e0, row, strategy)
       IN  /\ cash' = e.cash
           /\ position_shares' = e.position_shares
           /\ last_portfolio_value' = e.last_portfolio_value
           /\ current_date' = e.current_date
           /\ current_price' = e.current_price
           /\ trades_executed' = e.trades_executed
           /\ winning_trades' = e.winning_trades
           /\ losing_trades' = e.losing_trades
           /\ entry_price' = e.entry_price
           /\ trades' = e.trades
           /\ portfolio_history' = e.portfolio_history
           /\ emitted' = e.emitted
           /\ step' = [kind |-> "period", holding |-> position_shares > 0,
                       sells |-> CountType(e.trades, "SELL")
                                   - CountType(trades, "SELL"),
                       buys |-> CountType(e.trades, "BUY")
                                   - CountType(trades, "BUY"),
                       snaps |-> Len(e.portfolio_history)
                                   - Len(portfolio_history),
                       row |-> row]
    /\ pos' = pos + 1
    /\ rows' = rows + 1
    /\ processed' = IF row.price = NaN THEN processed ELSE processed + 1
    /\ signalled' = (signalled \/ (row.price # NaN /\ row.signal = 1))
    /\ single' = LoopBody([single EXCEPT !.current_date = strftime(pos),
                                         !.current_price = row.price],
                          row, strategy)
    /\ UNCHANGED <<strategy, performance_metrics, metrics, pc, summary,
                   returned, raised, runs, other>>

EndRun_ForceClose ==
    /\ pc = "loop"
    /\ pc' = "idle"
    /\ LET e == execute_sell(Eng)
       IN  /\ cash' = e.cash
           /\ position_shares' = e.position_shares
           /\ trades' = e.trades
           /\ trades_executed' = e.trades_executed
           /\ winning_trades' = e.winning_trades
           /\ losing_trades' = e.losing_trades
           /\ summary' = generate_summary(e)
           /\ emitted' = e.emitted
    /\ step' = [NoStep EXCEPT !.kind = "end"]
    /\ UNCHANGED <<strategy, last_portfolio_value, current_date,
                   current_price, entry_price, portfolio_history,
                   performance_metrics, metrics, pos, returned, raised,
                   rows, runs, processed, signalled, single, other>>
\* the series is exhausted: _generate_summary and return
EndRun ==
    /\ pc = "loop"
    /\ pc' = "idle"
    /\ summary' = generate_summary(Eng)
    /\ step' = [NoStep EXCEPT !.kind = "end"]
    /\ UNCHANGED <<engineVars, storeVars, metrics, pos, returned, raised,
                   rows, runs, processed, signalled, single, emitted, other>>

\* PerformanceAnalyzer(db_manager): a new analyzer on the same database
NewAnalyzer ==
    /\ pc = "idle"
    /\ metrics # EmptyDict
    /\ metrics' = EmptyDict
    /\ step' = [NoStep EXCEPT !.kind = "new_analyzer"]
    /\ UNCHANGED <<engineVars, storeVars, ctlVars, rows, runs, processed,
                   signalled, single, emitted, other>>

Analyze_ResetOnFail(risk_free_pct) ==
    /\ pc = "idle"
    /\ Len(performance_metrics) < MaxAnalyze
    /\ LET portfolio_df == get_portfolio_history(portfolio_history)
           trades_df == get_trades(trades)
       IN  IF portfolio_df = <<>>
           THEN /\ raised' = "ValueError"
                /\ metrics' = EmptyDict
                /\ UNCHANGED <<returned, performance_metrics>>
           ELSE LET m == analyze_performance(portfolio_df, trades_df,
                                             risk_free_pct, metrics)
                IN  /\ metrics' = m
                    /\ performance_metrics' =
                           log_performance_metrics(performance_metrics, m)
                    /\ returned' = m
                    /\ raised' = "none"
    /\ step' = [NoStep EXCEPT !.kind = "analyze"]
    /\ UNCHANGED <<engineVars, trades, portfolio_history, pc, pos, summary,
                   rows, runs, processed, signalled, single, emitted, other>>
\* analyzer.analyze_performance(risk_free_rate)
Analyze(risk_free_pct) ==
    /\ pc = "idle"
    /\ Len(performance_metrics) < MaxAnalyze
    /\ LET portfolio_df == get_portfolio_history(portfolio_history)
           trades_df == get_trades(trades)
       IN  IF portfolio_df = <<>>
           THEN /\ raised' = "ValueError"
                /\ UNCHANGED <<metrics, returned, performance_metrics>>
           ELSE LET m == analyze_performance(portfolio_df, trades_df,
                                             risk_free_pct, metrics)
                IN  /\ metrics' = m
                    /\ performance_metrics' =
                           log_performance_metrics(performance_metrics, m)
                    /\ returned' = m
                    /\ raised' = "none"
    /\ step' = [NoStep EXCEPT !.kind = "analyze"]
    /\ UNCHANGED <<engineVars, trades, portfolio_history, pc, pos, summary,
                   rows, runs, processed, signalled, single, emitted, other>>

\* the keys of self.metrics that print_performance_report formats
ReportKeys ==
    {"initial_capital", "final_portfolio_value", "total_return",
     "annualized_return", "annualized_volatility", "sharpe_ratio",
     "sortino_ratio", "max_drawdown", "total_trades", "winning_trades",
     "losing_trades", "win_rate", "avg_win", "avg_loss", "profit_factor"}
\* what print_performance_report raises for the analyzer's metrics
print_performance_report(self_metrics) ==
    IF self_metrics = EmptyDict THEN "none"
    ELSE IF ReportKeys \subseteq DOMAIN self_metrics THEN "none"
    ELSE "KeyError"

\* analyzer.print_performance_report()
Report ==
    /\ pc = "idle"
    /\ raised' = print_performance_report(metrics)
    /\ step' = [NoStep EXCEPT !.kind = "report"]
    /\ UNCHANGED <<engineVars, storeVars, metrics, pc, pos, summary,
                   returned, rows, runs, processed, signalled, single, emitted, other>>

\* ----------------------------------------------- a second command
\* main.py: the database of a `backtest` command without --db-file
db_file(strategy_name) == <<strategy_name, "_results.db">>
SameFile(strategy_name) == db_file(strategy_name) = db_file(strategy)

\* the engine of the second command with the tables of its database
OtherEng ==
    IF SameFile(other.strategy)
    THEN [other.eng EXCEPT !.trades = trades,
                           !.portfolio_history = portfolio_history]
    ELSE other.eng
\* the engine fields the second command keeps for itself
OtherKeeps(e) ==
    IF SameFile(other.strategy)
    THEN [e EXCEPT !.trades = <<>>, !.portfolio_history = <<>>]
    ELSE e

\* BacktestingEngine(db_file = ...) and run_backtest up to the main loop
\* in the second command: clear_data on its database
OtherStart(strategy_name) ==
    /\ other.pc = "none"
    /\ other' = [NoOther EXCEPT !.pc = "loop", !.pos = 1,
                                !.strategy = strategy_name]
    /\ IF SameFile(strategy_name)
       THEN /\ trades' = <<>>
            /\ portfolio_history' = <<>>
            /\ performance_metrics' = <<>>
       ELSE UNCHANGED storeVars
    /\ step' = [NoStep EXCEPT !.kind = "other"]
    /\ UNCHANGED <<engineVars, metrics, ctlVars, rows, runs, processed,
                   signalled, single, emitted>>
\* one row of the series of the second command
OtherPeriod(row) ==
    /\ other.pc = "loop"
    /\ other.pos <= MaxConcurrentRows
    /\ LET e == LoopBody([OtherEng EXCEPT
                              !.current_date = strftime(other.pos),
                              !.current_price = row.price],
                         row, other.strategy)
       IN  /\ other' = [other EXCEPT !.eng = OtherKeeps(e), !.pos = @ + 1]
           /\ IF SameFile(other.strategy)
              THEN /\ trades' = e.trades
                   /\ portfolio_history' = e.portfolio_history
              ELSE UNCHANGED <<trades, portfolio_history>>
    /\ step' = [NoStep EXCEPT !.kind = "other"]
    /\ UNCHANGED <<engineVars, performance_metrics, metrics, ctlVars, rows,
                   runs, processed, signalled, single, emitted>>
\* run_backtest returns in the second command
OtherEnd ==
    /\ other.pc = "loop"
    /\ other' = [other EXCEPT !.pc = "ended"]
    /\ step' = [NoStep EXCEPT !.kind = "other"]
    /\ UNCHANGED <<engineVars, storeVars, metrics, ctlVars, rows, runs,
                   processed, signalled, single, emitted>>
\* PerformanceAnalyzer(DatabaseManager(db_file)).analyze_performance() in
\* the second command
OtherAnalyze(risk_free_pct) ==
    /\ other.pc = "ended"
    /\ LET portfolio_df == get_portfolio_history(OtherEng.portfolio_history)
           trades_df == get_trades(OtherEng.trades)
           m == analyze_performance(portfolio_df, trades_df, risk_free_pct,
                                    EmptyDict)
       IN  IF portfolio_df = <<>>
           THEN /\ other' = [other EXCEPT !.pc = "done"]
                /\ UNCHANGED performance_metrics
           ELSE IF SameFile(other.strategy)
           THEN /\ other' = [other EXCEPT !.pc = "done"]
                /\ performance_metrics' =
                       log_performance_metrics(performance_metrics, m)
           ELSE /\ other' = [other EXCEPT
                                 !.pc = "done",
                                 !.performance_metrics =
                                     log_performance_metrics(@, m)]
                /\ UNCHANGED performance_metrics
    /\ step' = [NoStep EXCEPT !.kind = "other"]
    /\ UNCHANGED <<engineVars, trades, portfolio_history, metrics, ctlVars,
                   rows, runs, processed, signalled, single, emitted>>

Next ==
    \/ \E columns_ok \in BOOLEAN : StartRun(columns_ok)
    \/ \E row \in Rows(strategy) : Period(row)
    \/ EndRun
    \/ NewAnalyzer
    \/ \E risk_free_pct \in RiskFreePcts : Analyze(risk_free_pct)

Spec == Init /\ [][Next]_vars

\* the engine and its store alone
NextEngine ==
    \/ \E columns_ok \in BOOLEAN : StartRun(columns_ok)
    \/ \E row \in Rows(strategy) : Period(row)
    \/ EndRun
SpecEngine == Init /\ [][NextEngine]_vars

\* the engine as main.py builds it, with a strategy of the StrategyManager,
\* and the analyzer on its database
InitCLI == Init /\ strategy \in {"bollinger_bands", "ma_crossover"}
SpecCLI == InitCLI /\ [][Next]_vars

\* the analyzer opened on a database that holds the snapshots of a run in
\* which an engine with the first price as its capital bought one share in
\* the first period and held it: any history of positive total values
StoreHistories ==
    UNION {[1..n -> StorePrices] : n \in 1..MaxSnapshots}
StoredSnapshots(prices) ==
    [k \in 1..Len(prices) |->
        [date |-> k, cash |-> 0, holdings_value |-> prices[k],
         total_value |-> prices[k], shares_held |-> 1, price |-> prices[k]]]
InitStore ==
    /\ strategy = "none"
    /\ cash = 0
    /\ position_shares = 1
    /\ \E prices \in StoreHistories :
          /\ portfolio_history = StoredSnapshots(prices)
          /\ last_portfolio_value = prices[Len(prices)]
          /\ current_date = Len(prices)
          /\ current_price = prices[Len(prices)]
          /\ entry_price = prices[1]
          /\ trades = log_trade(<<>>, 1, "BUY", prices[1], 1, -prices[1],
                                prices[1])
          /\ pos = Len(prices) + 1
          /\ processed = Len(prices)
          /\ single = [NewEng EXCEPT !.trades = trades,
                                     !.portfolio_history = portfolio_history]
    /\ trades_executed = 1
    /\ winning_trades = 0
    /\ losing_trades = 0
    /\ performance_metrics = <<>>
    /\ pc = "idle"
    /\ metrics = EmptyDict
    /\ summary = NoSummary
    /\ returned = EmptyDict
    /\ raised = "none"
    /\ rows = 0
    /\ runs = 0
    /\ step = NoStep
    /\ emitted = <<>>
    /\ other = NoOther
    /\ signalled = TRUE
NextAnalyzer ==
    \/ NewAnalyzer
    \/ \E risk_free_pct \in RiskFreePcts : Analyze(risk_free_pct)
SpecStore == InitStore /\ [][NextAnalyzer]_vars

\* the same with the report printed from the analyzer's metrics
\* two `backtest` commands of main.py at the same time, each with the
\* series of its strategy (which has the required columns) and the default
\* database file; a command builds its engine, runs it once, and then
\* builds an analyzer and analyzes once
InitConcurrent == Init /\ strategy = "ma_crossover"
NextConcurrent ==
    \/ runs = 0 /\ StartRun(TRUE)
    \/ rows < MaxConcurrentRows /\ \E row \in Rows(strategy) : Period(row)
    \/ EndRun
    \/ /\ summary # NoSummary
       /\ metrics = EmptyDict
       /\ \E risk_free_pct \in RiskFreePcts : Analyze(risk_free_pct)
    \/ \E strategy_name \in {"bollinger_bands", "ma_crossover"} :
           OtherStart(strategy_name)
    \/ \E row \in Rows(other.strategy) : OtherPeriod(row)
    \/ OtherEnd
    \/ \E risk_free_pct \in RiskFreePcts : OtherAnalyze(risk_free_pct)
SpecConcurrent == InitConcurrent /\ [][NextConcurrent]_vars

NextReport ==
    \/ \E columns_ok \in BOOLEAN : StartRun(columns_ok)
    \/ \E row \in Rows(strategy) : Period(row)
    \/ EndRun
    \/ \E risk_free_pct \in RiskFreePcts : Analyze(risk_free_pct)
    \/ Report
SpecReport == InitCLI /\ [][NextReport]_vars

\* --------------------------------------------------------------- claims
Snapshots == {portfolio_history[k] : k \in 1..Len(portfolio_history)}
LastSnapshot == portfolio_history[Len(portfolio_history)]
\* the last step was a loop iteration over a row with a price
Processed == step.kind = "period" /\ step.row.price # NaN

\* C1: every stored snapshot has total_value = cash + shares_held * price
\* and holdings_value = shares_held * price, the price being the price of
\* the row the snapshot was taken for.
C1_Conservation ==
    /\ \A r \in Snapshots :
          /\ r.total_value = r.cash + r.shares_held * r.price
          /\ r.holdings_value = r.shares_held * r.price
    /\ Processed =>
          /\ LastSnapshot.date = current_date
          /\ LastSnapshot.price = step.row.price
C1_Witness ==
    \E r \in Snapshots :
        r.shares_held > 0 /\ r.price # entry_price /\ r.total_value > 0

\* C2: whenever shares are held the cash is 0; right after a Buy the cash
\* is 0, right after a Sell no shares are held.
C2_AllInAllOut ==
    /\ position_shares > 0 => cash = 0
    /\ step.buys = 1 => cash = 0 /\ position_shares > 0
    /\ step.sells = 1 => position_shares = 0
C2_Witness ==
    /\ step.sells = 1
    /\ cash > 0
    /\ \E k \in 1..Len(portfolio_history) :
          portfolio_history[k].shares_held > 0

\* C3: the trades, in the order they were written and in the order
\* get_trades returns them, alternate BUY, SELL, BUY, ... from a BUY; after
\* every trade the BUYs so far are as many as the SELLs or one more.
Alternates(tr) ==
    \A k \in 1..Len(tr) :
        /\ tr[k].trade_type = IF k % 2 = 1 THEN "BUY" ELSE "SELL"
        /\ CountType(SubSeq(tr, 1, k), "BUY")
              - CountType(SubSeq(tr, 1, k), "SELL") \in {0, 1}
C3_Alternation == Alternates(trades) /\ Alternates(get_trades(trades))
C3_Witness ==
    /\ Len(trades) >= 3
    /\ get_trades(trades)[3].trade_type = "BUY"

\* C4: a loop iteration executes at most one trade; one that starts with
\* shares held executes no Buy, whatever the row's signal.
C4_OneTradePerPeriod ==
    step.kind = "period" =>
        /\ step.buys + step.sells <= 1
        /\ step.holding => step.buys = 0
        /\ ~step.holding => step.sells = 0
C4_Witness ==
    /\ step.kind = "period"
    /\ step.holding
    /\ step.sells = 1
    /\ step.row.signal = 1
    /\ step.buys = 0

\* C5: a row with a price adds exactly one snapshot; a row without one
\* adds no snapshot and no trade and leaves cash, position_shares,
\* entry_price and the store as they were; nothing is stored for the first
\* record (day 0); so the snapshots stored during a run are as many as the
\* rows with a price iterated so far.
C5_SkipUnchanged ==
    (step'.kind = "period" /\ step'.row.price = NaN) =>
        UNCHANGED <<cash, position_shares, entry_price, storeVars>>
C5_Counts ==
    /\ Processed => step.snaps = 1
    /\ (step.kind = "period" /\ step.row.price = NaN) =>
          step.snaps = 0 /\ step.buys = 0 /\ step.sells = 0
    /\ Len(portfolio_history) = processed
    /\ \A r \in Snapshots : r.date # 0
    /\ \A k \in 1..Len(trades) : trades[k].trade_date # 0
C5_OneSnapshotPerPeriod == []C5_Counts /\ [][C5_SkipUnchanged]_vars
C5_Witness ==
    /\ step.kind = "period"
    /\ step.row.price = NaN
    /\ step.row.signal = 1
    /\ position_shares > 0
    /\ Len(portfolio_history) = 2
    /\ pos = 4

\* a run_backtest that raised for missing columns has just returned
InvalidRun == step.kind = "invalid"
\* an analyze_performance has just returned a result
Analysed == step.kind = "analyze" /\ raised = "none"

\* C6: a run_backtest that fails for a missing column leaves the portfolio
\* state, the counters and the stored trades, snapshots and metrics as
\* they were before the call.
C6_InvalidInputNoMutation ==
    [][InvalidRun' =>
          UNCHANGED <<cash, position_shares, entry_price, trades_executed,
                      winning_trades, losing_trades, storeVars>>]_vars

\* C7: an analyze_performance over the trades and snapshots that the
\* previous analyze_performance read returns the same result, on the same
\* analyzer or on a new one.  (`returned` is emptied when a run starts, so a
\* non-empty `returned` was computed from the history as it is now.)
C7_IdempotentMetrics ==
    [][(Analysed' /\ returned # EmptyDict) => returned' = returned]_vars

ExpectedSortino(m, risk_free_pct) ==
    LET negative_returns == SelectSeq(m.daily_returns, LAMBDA r : r[1] < 0)
        downside_deviation == DevTerm(negative_returns)
    IN  IF Len(negative_returns) > 0
        THEN IF downside_deviation # <<>>
             THEN RatioTerm(m.annualized_return, risk_free_pct,
                            downside_deviation)
             ELSE RatioZero
        ELSE IF AnnExceeds(m.annualized_return, risk_free_pct)
             THEN RatioInf ELSE RatioZero
C9_SharpeFromSameResult ==
    (Analysed /\ returned.annualized_volatility # <<>>) =>
        \E risk_free_pct \in RiskFreePcts :
            /\ returned.sharpe_ratio =
                   RatioTerm(returned.annualized_return, risk_free_pct,
                             returned.annualized_volatility)
            /\ returned.sortino_ratio =
                   ExpectedSortino(returned, risk_free_pct)

\* C10: every stored SELL is paired, with the BUY written just before it
\* (the one that opened the position it closes), no BUY lies between the
\* two in time, the pair's P&L is (sell price - buy price) * shares, and
\* the result of an analysis counts exactly these pairs.
C10_Pairing ==
    LET trades_df == get_trades(trades)
        pairs == TradePairs(trades_df)
    IN  /\ Len(pairs) = CountType(trades, "SELL")
        /\ \A k \in 1..Len(pairs) :
              /\ pairs[k].sell = trades[2 * k]
              /\ pairs[k].buy = trades[2 * k - 1]
              /\ pairs[k].buy.trade_type = "BUY"
              /\ pairs[k].buy.trade_date < pairs[k].sell.trade_date
              /\ \A j \in 1..Len(trades) :
                    trades[j].trade_type = "BUY" =>
                        ~(/\ pairs[k].buy.trade_date < trades[j].trade_date
                          /\ trades[j].trade_date < pairs[k].sell.trade_date)
              /\ pairs[k].pnl =
                    (pairs[k].sell.price - pairs[k].buy.price)
                        * pairs[k].sell.shares
        /\ (Analysed /\ Len(pairs) > 0) =>
              /\ returned.total_trades = Len(pairs)
              /\ returned.winning_trades =
                    Cardinality({k \in 1..Len(pairs) : pairs[k].pnl > 0})
              /\ returned.losing_trades =
                    Cardinality({k \in 1..Len(pairs) : pairs[k].pnl < 0})
C10_Witness ==
    /\ Analysed
    /\ returned.total_trades = 2
    /\ returned.winning_trades = 1
    /\ returned.losing_trades = 1
    /\ TradePairs(get_trades(trades))[2].buy = trades[3]

\* the P&L of the completed pairs of the stored trades, the winning and the
\* losing ones
PairPnl ==
    LET pairs == TradePairs(get_trades(trades))
    IN  [k \in 1..Len(pairs) |-> pairs[k].pnl]
PairWins == SelectSeq(PairPnl, LAMBDA x : x > 0)
PairLosses == SelectSeq(PairPnl, LAMBDA x : x < 0)

\* C11: a result computed from stored trades without a completed pair (no
\* trades, or an open BUY only) has every trade metric 0, total_trades
\* included.
C11_NoPairAllZero ==
    (Analysed /\ PairPnl = <<>>) =>
        /\ returned.total_trades = 0
        /\ returned.winning_trades = 0
        /\ returned.losing_trades = 0
        /\ returned.win_rate = Zero
        /\ returned.avg_win = Zero
        /\ returned.avg_loss = Zero
        /\ returned.profit_factor = Zero
        /\ returned.largest_win = 0
        /\ returned.largest_loss = 0

\* C12: in a result computed from at least one completed pair,
\* profit_factor is |sum of wins / sum of losses| when a pair lost, and it
\* is infinite only when no pair lost and at least one won.
C12_ProfitFactor ==
    (Analysed /\ PairPnl # <<>>) =>
        /\ PairLosses # <<>> =>
              returned.profit_factor =
                  RatAbs(Rat(Sum(PairWins), Sum(PairLosses)))
        /\ returned.profit_factor = Inf =>
              PairLosses = <<>> /\ PairWins # <<>>

\* C13: a result computed from 1 or 2 snapshots has annualized_volatility,
\* sharpe_ratio and sortino_ratio, all 0, and printing the report of that
\* result does not raise.
C13_ShortHistoryZeros ==
    /\ (Analysed /\ Len(portfolio_history) <= 2) =>
          /\ {"annualized_volatility", "sharpe_ratio", "sortino_ratio"}
                 \subseteq DOMAIN returned
          /\ returned.annualized_volatility = <<>>
          /\ returned.sharpe_ratio = RatioZero
          /\ returned.sortino_ratio = RatioZero
    /\ (step.kind = "report" /\ returned # EmptyDict
           /\ Len(portfolio_history) <= 2) => raised = "none"

\* C14: analyze_performance on an empty portfolio_history raises the
\* no-data ValueError, writes nothing to the store and leaves the
\* analyzer's metrics as they were; on a non-empty portfolio_history,
\* whatever was raised before, it returns a result.
C14_NoDataLocal ==
    [][step'.kind = "analyze" =>
          IF portfolio_history = <<>>
          THEN /\ raised' = "ValueError"
               /\ UNCHANGED <<metrics, storeVars>>
          ELSE /\ raised' = "none"
               /\ returned' # EmptyDict
               /\ metrics' = returned']_vars
C14_Witness ==
    /\ step.kind = "analyze"
    /\ raised = "ValueError"
    /\ portfolio_history = <<>>
    /\ metrics # EmptyDict
    /\ runs = 2

\* a run_backtest has just returned its summary
Ended == step.kind = "end"

\* the drawdown series and the drawdown metrics of the stored snapshots,
\* and the number of strictly negative drawdowns
StoredDrawdown == Drawdown(get_portfolio_history(portfolio_history))
StoredDrawdownMetrics ==
    calculate_drawdown_metrics(get_portfolio_history(portfolio_history))
NegativeDrawdowns ==
    Cardinality({k \in 1..Len(StoredDrawdown) : StoredDrawdown[k][1] < 0})
\* every drawdown is <= 0 and max_drawdown is >= the magnitude of each, so
\* >= current_drawdown; a result reports these metrics
DrawdownBounded ==
    /\ \A k \in 1..Len(StoredDrawdown) :
          /\ StoredDrawdown[k][1] <= 0
          /\ ~RatLess(StoredDrawdownMetrics.max_drawdown,
                      RatAbs(StoredDrawdown[k]))
    /\ ~RatLess(StoredDrawdownMetrics.max_drawdown,
                StoredDrawdownMetrics.current_drawdown)
    /\ Analysed =>
          /\ returned.max_drawdown = StoredDrawdownMetrics.max_drawdown
          /\ returned.current_drawdown
                = StoredDrawdownMetrics.current_drawdown
          /\ returned.avg_drawdown = StoredDrawdownMetrics.avg_drawdown

\* C16: for every non-empty stored history (total values are positive)
\* every drawdown is <= 0 and max_drawdown is >= the magnitude of every
\* drawdown, >= current_drawdown and >= avg_drawdown.
C16_DrawdownBound ==
    portfolio_history # <<>> =>
        /\ DrawdownBounded
        /\ ~RatLess(StoredDrawdownMetrics.max_drawdown,
                    StoredDrawdownMetrics.avg_drawdown)
\* C16, amended: every drawdown is <= 0 and max_drawdown is >= the
\* magnitude of every drawdown and >= current_drawdown; avg_drawdown, the
\* floating-point mean of the n negative drawdowns, is >= 0 and at most
\* max_drawdown * (1 + n * eps), eps = 2^(1 - MantissaBits) the relative
\* spacing of the floating-point numbers: rounding can carry it above
\* max_drawdown, by no more than that.
C16_DrawdownBoundRounded ==
    portfolio_history # <<>> =>
        /\ DrawdownBounded
        /\ StoredDrawdownMetrics.avg_drawdown[1] >= 0
        /\ StoredDrawdownMetrics.avg_drawdown[1]
              * StoredDrawdownMetrics.max_drawdown[2]
              * Pow2(MantissaBits - 1)
           <= StoredDrawdownMetrics.max_drawdown[1]
                * StoredDrawdownMetrics.avg_drawdown[2]
                * (Pow2(MantissaBits - 1) + NegativeDrawdowns)
C16_Witness ==
    /\ Analysed
    /\ Len(portfolio_history) = 4
    /\ RatLess(Zero, returned.current_drawdown)
    /\ RatLess(returned.current_drawdown, returned.avg_drawdown)
    /\ RatLess(returned.avg_drawdown, returned.max_drawdown)

\* C15: a run_backtest whose series has no row with a price (an empty
\* series, only NaN prices) raises the invalid-input ValueError and returns
\* no summary.
C15_EmptySeriesRejected ==
    (Ended /\ processed = 0) => (raised = "ValueError" /\ summary = NoSummary)

\* C17: when the series ends with shares held, the end of the run writes
\* no trade and leaves the position as it is, the last stored trade is the
\* BUY that opened it, and the summary's final_portfolio_value is the
\* shares held times the price of the last row with a price.
C17_EndKeepsPosition ==
    (step'.kind = "end" /\ position_shares > 0) =>
        UNCHANGED <<cash, position_shares, storeVars>>
C17_EndState ==
    (Ended /\ position_shares > 0) =>
        /\ trades[Len(trades)].trade_type = "BUY"
        /\ CountType(trades, "BUY") = CountType(trades, "SELL") + 1
        /\ summary.final_portfolio_value
              = position_shares * LastSnapshot.price
        /\ LastSnapshot.date = Max([k \in 1..Len(portfolio_history) |->
                                      portfolio_history[k].date])
C17_OpenPositionLeftOpen == []C17_EndState /\ [][C17_EndKeepsPosition]_vars
C17_Witness ==
    /\ Ended
    /\ position_shares > 0
    /\ current_price = NaN
    /\ LastSnapshot.price # entry_price
    /\ summary.final_portfolio_value # InitialCapital

\* C18: as long as no row with a price of this run carried signal 1, no
\* trade is stored and every snapshot has cash = total_value =
\* initial capital and no shares; the summary of such a run has
\* final_portfolio_value = initial capital, no trades and win_rate 0, and a
\* result computed from it has win_rate 0 and profit_factor 0.
C18_NoBuySignal ==
    ~signalled =>
        /\ trades = <<>>
        /\ \A r \in Snapshots :
              /\ r.cash = InitialCapital
              /\ r.total_value = InitialCapital
              /\ r.shares_held = 0
        /\ Ended =>
              /\ summary.final_portfolio_value = InitialCapital
              /\ summary.total_trades = 0
              /\ summary.win_rate = Zero
        /\ Analysed =>
              /\ returned.win_rate = Zero
              /\ returned.profit_factor = Zero

\* C19: the summary a run_backtest returns has final_portfolio_value =
\* total_value of the last snapshot stored by that call (the initial
\* capital when it stored none), and total_return and profit_loss computed
\* from that value.
C19_FinalFromLastSnapshot ==
    Ended =>
        LET final == IF portfolio_history = <<>> THEN InitialCapital
                     ELSE LastSnapshot.total_value
        IN  /\ summary.final_portfolio_value = final
            /\ summary.total_return =
                   Rat((final - InitialCapital) * 100, InitialCapital)
            /\ summary.profit_loss = final - InitialCapital

\* C20: at every moment of every run, the first or a later one on the same
\* engine and database, the stored trades and snapshots are exactly those
\* a newly built engine on an empty database has after the same rows; a
\* run starts from an empty store.
C20_FreshLedger ==
    /\ trades = single.trades
    /\ portfolio_history = single.portfolio_history
    /\ step.kind \in {"start", "invalid"} =>
          trades = <<>> /\ portfolio_history = <<>>
C20_Witness ==
    /\ runs = 2
    /\ pc = "loop"
    /\ entry_price > 0
    /\ Len(portfolio_history) = 1
    /\ trades = <<>>

\* C23: an engine without a strategy that starts a row with a price
\* holding shares sells in that row exactly when the row has a middle_band
\* that is not NaN and is <= the price (an equal price sells); with the
\* middle_band missing or NaN it keeps the position.
C23_DefaultExit ==
    (Processed /\ strategy = "none" /\ step.holding) =>
        /\ step.sells = 1 <=>
              /\ step.row.middle_band \notin {None, NaN}
              /\ step.row.middle_band <= step.row.price
        /\ step.sells = 0 <=> position_shares > 0
        /\ step.row.middle_band \in {None, NaN} => position_shares > 0
C23_Witness ==
    /\ Processed
    /\ strategy = "none"
    /\ step.holding
    /\ step.sells = 1
    /\ step.row.middle_band = step.row.price

\* the outcome of the loop body for a row, from the engine as it is now
RowOutcome(row) ==
    LoopBody([Eng EXCEPT !.current_date = strftime(pos),
                         !.current_price = row.price], row, strategy)

\* C24: a row with a price that starts with no shares held executes a Buy
\* exactly when its signal is 1 and cash > 0; otherwise it executes no
\* trade and leaves cash, position_shares and entry_price as they were.
\* No signal value makes a row that starts without shares sell, and while
\* shares are held the outcome of a row does not depend on its signal.
C24_FlatRow ==
    (step'.kind = "period" /\ step'.row.price # NaN /\ position_shares <= 0)
        => /\ step'.sells = 0
           /\ IF step'.row.signal = 1 /\ cash > 0
              THEN /\ step'.buys = 1
                   /\ position_shares' > 0
                   /\ entry_price' = step'.row.price
              ELSE /\ step'.buys = 0
                   /\ UNCHANGED <<cash, position_shares, entry_price,
                                  trades>>
C24_HoldingIgnoresSignal ==
    (pc = "loop" /\ position_shares > 0) =>
        \A row \in Rows(strategy) : \A sig \in {0, 1, -1} :
            RowOutcome(row) = RowOutcome([row EXCEPT !.signal = sig])
C25_SnapshotOfTrade ==
    \A k \in 1..Len(trades) :
        \E r \in Snapshots :
            /\ r.date = trades[k].trade_date
            /\ r.price = trades[k].price
            /\ r.total_value = trades[k].portfolio_value
            /\ trades[k].trade_type = "BUY" =>
                  r.cash = 0 /\ r.shares_held = trades[k].shares
            /\ trades[k].trade_type = "SELL" => r.shares_held = 0
C25_SellProceeds ==
    step'.sells = 1 =>
        /\ LastSnapshot'.date = trades'[Len(trades')].trade_date
        /\ LastSnapshot'.cash = cash + trades'[Len(trades')].cash_change
C25_SnapshotAfterTrade == []C25_SnapshotOfTrade /\ [][C25_SellProceeds]_vars
C25_Witness ==
    /\ Len(trades) = 2
    /\ step.sells = 1
    /\ LastSnapshot.cash = trades[2].cash_change
    /\ LastSnapshot.total_value # InitialCapital

\* the stored SELLs, by position in the trades table, that sold above the
\* price of the BUY stored just before them
SellsAbove ==
    {k \in 1..Len(trades) :
        /\ trades[k].trade_type = "SELL"
        /\ k > 1
        /\ trades[k - 1].trade_type = "BUY"
        /\ trades[k].price > trades[k - 1].price}

\* C26: winning_trades counts the SELLs at a price above the price of the
\* BUY that opened the position, losing_trades all other SELLs (an equal
\* price counts as losing); so winning_trades + losing_trades is the
\* number of SELL rows and trades_executed the number of BUY and SELL rows.
C26_WinLossCounters ==
    /\ winning_trades = Cardinality(SellsAbove)
    /\ losing_trades = CountType(trades, "SELL") - Cardinality(SellsAbove)
    /\ winning_trades + losing_trades = CountType(trades, "SELL")
    /\ trades_executed
          = CountType(trades, "BUY") + CountType(trades, "SELL")
    /\ step.sells = 1 => entry_price = trades[Len(trades) - 1].price
    /\ Ended => summary.total_trades = Len(trades)
C26_Witness ==
    /\ winning_trades = 1
    /\ losing_trades = 1
    /\ \E k \in 2..Len(trades) :
          /\ trades[k].trade_type = "SELL"
          /\ trades[k].price = trades[k - 1].price

\* C27: at every point of a run the engine's cash is the initial capital
\* plus the sum of cash_change over the trades stored so far in that run.
C27_CashLedger ==
    cash = InitialCapital
             + Sum([k \in 1..Len(trades) |-> trades[k].cash_change])

\* C28: a trade leaves the total value marked at the row's price as it
\* was, so the first snapshot of a run has total_value = initial capital,
\* and the initial_capital of a result (the first snapshot's total_value)
\* is the initial_capital of the run's summary.
C28_ValuePreserved ==
    /\ (Processed /\ step.buys + step.sells = 1) =>
          \A k \in 2..Len(portfolio_history) :
              portfolio_history[k].date = current_date =>
                  LET before == portfolio_history[k - 1]
                  IN  portfolio_history[k].total_value
                        = before.cash + before.shares_held * current_price
    /\ portfolio_history # <<>> =>
          get_portfolio_history(portfolio_history)[1].total_value
              = InitialCapital
    /\ (Analysed /\ summary # NoSummary) =>
          returned.initial_capital = summary.initial_capital

\* C29: from a BUY to the SELL that closes it, position_shares and
\* entry_price stay as the BUY set them through every row in between,
\* with or without a price: a row that starts with shares held and does
\* not sell leaves both unchanged, the shares held are those of the last
\* stored BUY, every stored SELL follows a BUY of the same number of
\* shares, and a SELL counts as a win exactly when its price is above
\* that BUY's price.
C29_OpenPosition ==
    /\ \A k \in 1..Len(trades) :
          trades[k].trade_type = "SELL" =>
              /\ k > 1
              /\ trades[k - 1].trade_type = "BUY"
              /\ trades[k].shares = trades[k - 1].shares
    /\ position_shares > 0 =>
          /\ Len(trades) > 0
          /\ trades[Len(trades)].trade_type = "BUY"
          /\ position_shares = trades[Len(trades)].shares
          /\ entry_price = trades[Len(trades)].price
C29_HeldRow ==
    (step'.kind = "period" /\ position_shares > 0) =>
        IF step'.sells = 0
        THEN UNCHANGED <<position_shares, entry_price, trades>>
        ELSE LET buy == trades[Len(trades)]
                 sell == trades'[Len(trades')]
             IN  /\ sell.shares = position_shares
                 /\ IF sell.price > buy.price
                    THEN /\ winning_trades' = winning_trades + 1
                         /\ losing_trades' = losing_trades
                    ELSE /\ winning_trades' = winning_trades
                         /\ losing_trades' = losing_trades + 1
C29_PositionFrame == []C29_OpenPosition /\ [][C29_HeldRow]_vars
C29_Witness ==
    /\ step.kind = "period"
    /\ step.sells = 1
    /\ Len(trades) = 2
    /\ trades[2].trade_date = trades[1].trade_date + 3
    /\ Len(portfolio_history) = 3
    /\ trades[2].price # trades[1].price

\* C30: the summary's win_rate is 100 * winning_trades / (winning_trades
\* + losing_trades) whenever a SELL was executed in the run (one winning
\* round trip gives 100), and 0 when no trade was executed.
C30_WinRate ==
    Ended =>
        summary.win_rate =
            IF winning_trades + losing_trades > 0
            THEN Rat(100 * winning_trades, winning_trades + losing_trades)
            ELSE Zero

\* C22: rows are read in ascending date order, and the date columns of the
\* trades and snapshots the run inserts never decrease from one INSERT to
\* the next; the trade of a row is inserted before the snapshot of that
\* row.
C22_MonotonicTime ==
    /\ \A i, j \in 1..Len(emitted) :
          i < j => emitted[i].date <= emitted[j].date
    /\ \A i, j \in 1..Len(emitted) :
          (/\ emitted[i].date = emitted[j].date
           /\ emitted[i].table = "trades"
           /\ emitted[j].table = "portfolio_status") => i < j
    /\ \A k \in 1..Len(trades) :
          \E i, j \in 1..Len(emitted) :
              /\ i < j
              /\ emitted[i] = [table |-> "trades",
                               date |-> trades[k].trade_date]
              /\ emitted[j] = [table |-> "portfolio_status",
                               date |-> trades[k].trade_date]
C22_Witness ==
    /\ Len(emitted) = 5
    /\ emitted[1].table = "trades"
    /\ emitted[2].table = "portfolio_status"
    /\ emitted[3].table = "portfolio_status"
    /\ emitted[4].table = "trades"
    /\ emitted[4].date > emitted[3].date + 1
    /\ Len(trades) = 2

\* C21: when two runs interleave their store operations, the trades and
\* snapshots the analysis of a run reads are exactly the ones that run
\* inserted, and the start of one run does not clear the rows of the other.
C21_ReadsOwnRows ==
    Analysed =>
        /\ get_trades(trades) = get_trades(single.trades)
        /\ get_portfolio_history(portfolio_history)
               = get_portfolio_history(single.portfolio_history)
C21_KeepsOtherRows ==
    (other.pc = "none" /\ other'.pc = "loop")
        => UNCHANGED <<trades, portfolio_history>>
C21_IsolatedRuns == []C21_ReadsOwnRows /\ [][C21_KeepsOtherRows]_vars

====
